---------------------------- MODULE Spec2Model ----------------------------
(***************************************************************************)
(* Model of modules/lambda-authorizer/lambda_src/authorizer.py: the        *)
(* API Gateway v2 Lambda authorizer lambda_handler(event, context).        *)
(*                                                                         *)
(* Python values are tagged records.  The handler is modelled twice from   *)
(* the same source lines: as the operator lambda_handler (one call, run    *)
(* to its end) and as one action per statement (pc, locals), so that       *)
(* sequences of invocations and interleaved invocations can be observed.   *)
(***************************************************************************)
EXTENDS Naturals, Sequences, FiniteSets, TLC

\* Number of invocation contexts that may be in flight together.
MaxConcurrent == 2

Invocations == 1..MaxConcurrent

-----------------------------------------------------------------------------
(* Python values *)

PyNone == [t |-> "None"]
PyStr(s) == [t |-> "str", s |-> s]
PyBool(b) == [t |-> "bool", b |-> b]
PyDict(m) == [t |-> "dict", m |-> m]
\* A local name that has not been assigned yet.
Unbound == [t |-> "unbound"]

EmptyMap == [k \in {} |-> PyNone]

\* dict.get(key, default)
DictGet(d, key, default) == IF key \in DOMAIN d.m THEN d.m[key] ELSE default

\* Only a dict has a .get attribute; on any other value the attribute
\* lookup raises AttributeError.
HasGet(v) == v.t = "dict"

\* Python truth value, as used by "if not x".
Truthy(v) ==
    CASE v.t = "None" -> FALSE
      [] v.t = "str"  -> v.s # ""
      [] v.t = "bool" -> v.b
      [] v.t = "dict" -> DOMAIN v.m # {}
      [] OTHER        -> FALSE

\* os.environ.get(name): the value as a str, or None when the name is unset.
EnvironGet(env, name) == IF name \in DOMAIN env THEN PyStr(env[name]) ELSE PyNone

-----------------------------------------------------------------------------
(* Logging: logger = logging.getLogger(); logger.setLevel(logging.INFO) *)

\* logging.INFO, the threshold set on the logger.
LoggerLevel == 20

LevelNo(level) ==
    CASE level = "INFO"    -> 20
      [] level = "WARNING" -> 30
      [] level = "ERROR"   -> 40

Line(level, msg, arg) == [level |-> level, msg |-> msg, arg |-> arg]

\* logger.info / logger.warning / logger.error: the record is emitted when
\* its level reaches the logger's level.
LogTo(lines, level, msg, arg) ==
    IF LevelNo(level) >= LoggerLevel THEN Append(lines, Line(level, msg, arg))
    ELSE lines

MsgInvoked == "Authorizer invoked for request"
MsgNoConfig == "ADMIN_API_KEY environment variable not set"
MsgNoHeader == "No x-api-key header provided"
MsgValid == "API key validated successfully"
MsgInvalid == "Invalid API key provided"

\* Mutant of Verdict: the denial carries a field saying why.
VerdictWithReason(b) ==
    IF b THEN PyDict("isAuthorized" :> PyBool(TRUE))
    ELSE PyDict(("isAuthorized" :> PyBool(FALSE)) @@ ("reason" :> PyStr("denied")))

\* The returned object {"isAuthorized": b}.
Verdict(b) == PyDict("isAuthorized" :> PyBool(b))


-----------------------------------------------------------------------------
(* The handler as one call: lambda_handler(event, context) under os.environ = env *)

NoException == ""
AttributeError == "AttributeError"

Returned(value, lines) == [exc |-> NoException, result |-> value, lines |-> lines]
Raised(name, lines) == [exc |-> name, result |-> Unbound, lines |-> lines]

\* Line 53: event.get('requestContext', {})
RequestContextOf(e) == DictGet(e, "requestContext", PyDict(EmptyMap))

\* Line 64: event.get("headers", {})
HeadersOf(e) == DictGet(e, "headers", PyDict(EmptyMap))

\* Lines 74-79: the comparison and its two returns.
ValidateKey(provided, expected, lines) ==
    IF provided = expected
    THEN Returned(Verdict(TRUE), LogTo(lines, "INFO", MsgValid, PyNone))
    ELSE Returned(Verdict(FALSE), LogTo(lines, "WARNING", MsgInvalid, PyNone))

\* Lines 64-79: the part that runs once the secret is known to be non-empty.
CheckHeader(e, expected, lines) ==
    LET headers == HeadersOf(e) IN
    IF ~HasGet(headers) THEN Raised(AttributeError, lines)
    ELSE LET provided == DictGet(headers, "x-api-key", PyNone) IN
         IF ~Truthy(provided)
         THEN Returned(Verdict(FALSE), LogTo(lines, "WARNING", MsgNoHeader, PyNone))
         ELSE ValidateKey(provided, expected, lines)

\* Lines 53-79.
lambda_handler(e, env) ==
    LET rc == RequestContextOf(e) IN
    IF ~HasGet(rc) THEN Raised(AttributeError, << >>)
    ELSE LET l1 == LogTo(<< >>, "INFO", MsgInvoked, DictGet(rc, "requestId", PyNone))
             expected == EnvironGet(env, "ADMIN_API_KEY")
         IN  IF ~Truthy(expected)
             THEN Returned(Verdict(FALSE), LogTo(l1, "ERROR", MsgNoConfig, PyNone))
             ELSE CheckHeader(e, expected, l1)

-----------------------------------------------------------------------------
(* Inputs: the events and environments the handler is run on *)

\* Secrets and presented keys: equal, differing in case, differing by a
\* trailing blank, and empty.
KeyStrings == {"", "k1", "K1", "k1 "}

\* os.environ restricted to the one name the handler reads: unset, or set.
Environs == {EmptyMap} \cup {("ADMIN_API_KEY" :> s) : s \in {"", "k1", "K1"}}

\* A field of a JSON object: absent, or present with one of the values.
Field(name, values) == {EmptyMap} \cup {(name :> v) : v \in values}

HeaderMaps ==
    {k @@ o : k \in Field("x-api-key", {PyStr(s) : s \in KeyStrings}),
              o \in Field("x-trace-id", {PyStr("t1")})}

\* "headers" and "requestContext" are JSON values: an object, or null.
HeaderValues == {PyNone} \cup {PyDict(m) : m \in HeaderMaps}
RequestContextValues == {PyNone, PyDict("requestId" :> PyStr("r1"))}

Events ==
    {PyDict(h @@ r @@ b) : h \in Field("headers", HeaderValues),
                           r \in Field("requestContext", RequestContextValues),
                           b \in Field("body", {PyStr("payload")})}

\* The events used when several invocations are interleaved.
ConcurrentEvents ==
    {e \in Events : /\ "body" \notin DOMAIN e.m
                    /\ "requestContext" \in DOMAIN e.m
                    /\ "headers" \in DOMAIN e.m
                    /\ e.m["headers"].t = "dict" =>
                          /\ "x-trace-id" \notin DOMAIN e.m["headers"].m
                          /\ DictGet(e.m["headers"], "x-api-key", PyStr("")).s
                                \in {"", "k1", "K1"}}

-----------------------------------------------------------------------------
(* The handler statement by statement *)

VARIABLES
    environ,            \* os.environ (process-wide)
    pc,                 \* per invocation: idle, the line about to run, returned, raised
    event,              \* per invocation: the event object passed in
    expected_api_key,   \* per invocation: local of line 56
    headers,            \* per invocation: local of line 64
    provided_api_key,   \* per invocation: local of line 67
    result,             \* per invocation: the returned object
    exc,                \* per invocation: the exception that ended it, if any
    logged,             \* per invocation: the records it has emitted on the logger
    ran_under,          \* per invocation: os.environ as it was when invoked
    prev                \* per context: what the invocation before this one did

vars == <<environ, pc, event, expected_api_key, headers, provided_api_key,
          result, exc, logged, ran_under, prev>>

locals == <<expected_api_key, headers, provided_api_key>>

Finished(i) == pc[i] \in {"returned", "raised"}
Running(i) == pc[i] \notin {"idle", "returned", "raised"}

\* headers['x-api-key'] of an event, None when the mapping has no such entry,
\* Unbound when the event has no headers mapping to look in.
XApiKeyOf(e) ==
    IF e.t # "dict" THEN Unbound
    ELSE IF ~HasGet(HeadersOf(e)) THEN Unbound
    ELSE DictGet(HeadersOf(e), "x-api-key", PyNone)

\* Two events agree on headers['x-api-key']: both have a headers mapping and
\* the lookups give the same value (or both find no entry).
AgreeOnKey(e1, e2) == XApiKeyOf(e1) # Unbound /\ XApiKeyOf(e1) = XApiKeyOf(e2)

NoPrev ==
    [any |-> FALSE, same |-> FALSE, agree |-> FALSE, secret |-> PyNone,
     exc |-> NoException, result |-> Unbound]

\* What context i last did, kept for the invocation on `e` that follows it:
\* whether e is the same object, whether it agrees on the key, the secret the
\* earlier invocation ran under, and how it ended.
LastOf(i, e, same) ==
    IF Finished(i)
    THEN [any |-> TRUE, same |-> same, agree |-> AgreeOnKey(event[i], e),
          secret |-> EnvironGet(ran_under[i], "ADMIN_API_KEY"),
          exc |-> exc[i], result |-> result[i]]
    ELSE NoPrev

Init ==
    /\ environ \in Environs
    /\ pc = [i \in Invocations |-> "idle"]
    /\ event = [i \in Invocations |-> Unbound]
    /\ expected_api_key = [i \in Invocations |-> Unbound]
    /\ headers = [i \in Invocations |-> Unbound]
    /\ provided_api_key = [i \in Invocations |-> Unbound]
    /\ result = [i \in Invocations |-> Unbound]
    /\ exc = [i \in Invocations |-> NoException]
    /\ logged = [i \in Invocations |-> << >>]
    /\ ran_under = [i \in Invocations |-> environ]
    /\ prev = [i \in Invocations |-> NoPrev]

\* A fresh frame for lambda_handler in context i.
Enter(i) ==
    /\ pc' = [pc EXCEPT ![i] = "L53"]
    /\ expected_api_key' = [expected_api_key EXCEPT ![i] = Unbound]
    /\ headers' = [headers EXCEPT ![i] = Unbound]
    /\ provided_api_key' = [provided_api_key EXCEPT ![i] = Unbound]
    /\ result' = [result EXCEPT ![i] = Unbound]
    /\ exc' = [exc EXCEPT ![i] = NoException]
    /\ logged' = [logged EXCEPT ![i] = << >>]
    /\ ran_under' = [ran_under EXCEPT ![i] = environ]

\* The host calls lambda_handler(e, context) in context i.
Invoke(i, e) ==
    /\ ~Running(i)
    /\ event' = [event EXCEPT ![i] = e]
    /\ prev' = [prev EXCEPT ![i] = LastOf(i, e, FALSE)]
    /\ Enter(i)
    /\ UNCHANGED environ

\* The host calls lambda_handler again with the very event object of the
\* invocation that just ended.
Reinvoke(i) ==
    /\ Finished(i)
    /\ prev' = [prev EXCEPT ![i] = LastOf(i, event[i], TRUE)]
    /\ Enter(i)
    /\ UNCHANGED <<environ, event>>

\* ADMIN_API_KEY is set, changed or unset in the process environment while
\* no invocation is running.
SetEnviron(env) ==
    /\ \A i \in Invocations : ~Running(i)
    /\ env # environ
    /\ environ' = env
    /\ UNCHANGED <<pc, event, locals, result, exc, logged, ran_under, prev>>

Raise(i, name) ==
    /\ pc' = [pc EXCEPT ![i] = "raised"]
    /\ exc' = [exc EXCEPT ![i] = name]
    /\ UNCHANGED result

Return(i, value) ==
    /\ pc' = [pc EXCEPT ![i] = "returned"]
    /\ result' = [result EXCEPT ![i] = value]
    /\ UNCHANGED exc

Goto(i, label) ==
    /\ pc' = [pc EXCEPT ![i] = label]
    /\ UNCHANGED <<result, exc>>

Emit(i, level, msg, arg) ==
    logged' = [logged EXCEPT ![i] = LogTo(logged[i], level, msg, arg)]

\* Line 53: logger.info(f"... {event.get('requestContext', {}).get('requestId')}")
LogInvocation(i) ==
    /\ pc[i] = "L53"
    /\ IF HasGet(RequestContextOf(event[i]))
       THEN /\ Emit(i, "INFO", MsgInvoked,
                    DictGet(RequestContextOf(event[i]), "requestId", PyNone))
            /\ Goto(i, "L56")
       ELSE /\ Raise(i, AttributeError)
            /\ UNCHANGED logged
    /\ UNCHANGED <<environ, event, locals, ran_under, prev>>

\* Mutant of ReadEnviron: the secret is kept from the invocation before
\* (a module-level cache) instead of being read from os.environ again.
ReadEnvironCached(i) ==
    /\ pc[i] = "L56"
    /\ expected_api_key' =
          [expected_api_key EXCEPT ![i] =
              IF prev[i].any /\ Truthy(prev[i].secret) THEN prev[i].secret
              ELSE EnvironGet(environ, "ADMIN_API_KEY")]
    /\ Goto(i, "L58")
    /\ UNCHANGED <<environ, event, headers, provided_api_key, logged, ran_under, prev>>

\* Line 56: expected_api_key = os.environ.get("ADMIN_API_KEY")
ReadEnviron(i) ==
    /\ pc[i] = "L56"
    /\ expected_api_key' =
          [expected_api_key EXCEPT ![i] = EnvironGet(environ, "ADMIN_API_KEY")]
    /\ Goto(i, "L58")
    /\ UNCHANGED <<environ, event, headers, provided_api_key, logged, ran_under, prev>>

\* Lines 58-60: if not expected_api_key: logger.error(...); return False
CheckExpected(i) ==
    /\ pc[i] = "L58"
    /\ IF ~Truthy(expected_api_key[i])
       THEN /\ Emit(i, "ERROR", MsgNoConfig, PyNone)
            /\ Return(i, Verdict(FALSE))
       ELSE /\ Goto(i, "L64")
            /\ UNCHANGED logged
    /\ UNCHANGED <<environ, event, locals, ran_under, prev>>

\* Line 64: headers = event.get("headers", {})
GetHeaders(i) ==
    /\ pc[i] = "L64"
    /\ headers' = [headers EXCEPT ![i] = HeadersOf(event[i])]
    /\ Goto(i, "L67")
    /\ UNCHANGED <<environ, event, expected_api_key, provided_api_key, logged,
                   ran_under, prev>>

\* dict.pop(key, None) on the event's headers: the event without that header.
WithoutHeader(e, key) ==
    IF "headers" \in DOMAIN e.m /\ e.m["headers"].t = "dict"
    THEN PyDict([e.m EXCEPT !["headers"] =
                    PyDict([k \in DOMAIN e.m["headers"].m \ {key} |-> e.m["headers"].m[k]])])
    ELSE e

\* Mutant of GetProvided: headers.pop("x-api-key", None), which takes the
\* header out of the caller's event.
GetProvidedPop(i) ==
    /\ pc[i] = "L67"
    /\ IF HasGet(headers[i])
       THEN /\ provided_api_key' =
                  [provided_api_key EXCEPT ![i] = DictGet(headers[i], "x-api-key", PyNone)]
            /\ event' = [event EXCEPT ![i] = WithoutHeader(event[i], "x-api-key")]
            /\ Goto(i, "L69")
       ELSE /\ Raise(i, AttributeError)
            /\ UNCHANGED <<provided_api_key, event>>
    /\ UNCHANGED <<environ, expected_api_key, headers, logged, ran_under, prev>>

\* Mutant of GetProvided: provided_api_key is a module-level global, one
\* name shared by every invocation in flight.
GetProvidedGlobal(i) ==
    /\ pc[i] = "L67"
    /\ IF HasGet(headers[i])
       THEN /\ provided_api_key' =
                  [j \in Invocations |-> DictGet(headers[i], "x-api-key", PyNone)]
            /\ Goto(i, "L69")
       ELSE /\ Raise(i, AttributeError)
            /\ UNCHANGED provided_api_key
    /\ UNCHANGED <<environ, event, expected_api_key, headers, logged, ran_under, prev>>

\* Line 67: provided_api_key = headers.get("x-api-key")
GetProvided(i) ==
    /\ pc[i] = "L67"
    /\ IF HasGet(headers[i])
       THEN /\ provided_api_key' =
                  [provided_api_key EXCEPT ![i] = DictGet(headers[i], "x-api-key", PyNone)]
            /\ Goto(i, "L69")
       ELSE /\ Raise(i, AttributeError)
            /\ UNCHANGED provided_api_key
    /\ UNCHANGED <<environ, event, expected_api_key, headers, logged, ran_under, prev>>

\* Lines 69-71: if not provided_api_key: logger.warning(...); return False
CheckProvided(i) ==
    /\ pc[i] = "L69"
    /\ IF ~Truthy(provided_api_key[i])
       THEN /\ Emit(i, "WARNING", MsgNoHeader, PyNone)
            /\ Return(i, Verdict(FALSE))
       ELSE /\ Goto(i, "L74")
            /\ UNCHANGED logged
    /\ UNCHANGED <<environ, event, locals, ran_under, prev>>

\* Lines 74-79: if provided_api_key == expected_api_key: ... else: ...
Compare(i) ==
    /\ pc[i] = "L74"
    /\ IF provided_api_key[i] = expected_api_key[i]
       THEN /\ Emit(i, "INFO", MsgValid, PyNone)
            /\ Return(i, Verdict(TRUE))
       ELSE /\ Emit(i, "WARNING", MsgInvalid, PyNone)
            /\ Return(i, Verdict(FALSE))
    /\ UNCHANGED <<environ, event, locals, ran_under, prev>>

\* One statement of the invocation in context i.
Step(i) ==
    \/ LogInvocation(i)
    \/ ReadEnviron(i)
    \/ CheckExpected(i)
    \/ GetHeaders(i)
    \/ GetProvided(i)
    \/ CheckProvided(i)
    \/ Compare(i)

\* One execution context, as the Lambda runtime runs it: one invocation at a
\* time, any event, the environment changing between invocations.
Next ==
    \/ \E e \in Events : Invoke(1, e)
    \/ Reinvoke(1)
    \/ \E env \in Environs : SetEnviron(env)
    \/ Step(1)

Spec == Init /\ [][Next]_vars

\* Several invocations interleaved statement by statement against a fixed
\* ADMIN_API_KEY, each started once.
NextConcurrent ==
    \E i \in Invocations :
        \/ \E e \in ConcurrentEvents : pc[i] = "idle" /\ Invoke(i, e)
        \/ Step(i)

SpecConcurrent == Init /\ [][NextConcurrent]_vars

-----------------------------------------------------------------------------
(* What the specification says of the handler *)

SecretOf(env) == EnvironGet(env, "ADMIN_API_KEY")

\* ADMIN_API_KEY is set and non-empty.
SecretConfigured(env) == "ADMIN_API_KEY" \in DOMAIN env /\ env["ADMIN_API_KEY"] # ""

\* The event's headers mapping has a non-empty 'x-api-key' entry.
KeyPresented(e) ==
    /\ "headers" \in DOMAIN e.m
    /\ e.m["headers"].t = "dict"
    /\ "x-api-key" \in DOMAIN e.m["headers"].m
    /\ e.m["headers"].m["x-api-key"].t = "str"
    /\ e.m["headers"].m["x-api-key"].s # ""

\* Secret configured, key presented, and the two strings equal.
ShouldAuthorize(e, env) ==
    /\ SecretConfigured(env)
    /\ KeyPresented(e)
    /\ e.m["headers"].m["x-api-key"].s = env["ADMIN_API_KEY"]

Allow == [t |-> "dict", m |-> [isAuthorized |-> [t |-> "bool", b |-> TRUE]]]
Deny == [t |-> "dict", m |-> [isAuthorized |-> [t |-> "bool", b |-> FALSE]]]
VerdictFor(b) == IF b THEN Allow ELSE Deny

IsOutcomeLine(l) == l.msg # MsgInvoked
OutcomeLines(i) == SelectSeq(logged[i], IsOutcomeLine)

\* The diagnostic the outcome branch of (e, env) emits, by the order of the checks.
BranchDiagnostic(e, env) ==
    IF ~SecretConfigured(env) THEN [level |-> "ERROR", msg |-> MsgNoConfig]
    ELSE IF ~KeyPresented(e) THEN [level |-> "WARNING", msg |-> MsgNoHeader]
    ELSE IF ShouldAuthorize(e, env) THEN [level |-> "INFO", msg |-> MsgValid]
    ELSE [level |-> "WARNING", msg |-> MsgInvalid]

\* C1: for every environment and every request the handler returns
\* isAuthorized = true exactly when the secret is set and non-empty, the
\* headers mapping has a non-empty 'x-api-key' entry and the two strings are
\* equal; in every other case it returns isAuthorized = false.
C1_VerdictIffKeysEqual ==
    \A i \in Invocations :
        Finished(i) =>
            /\ pc[i] = "returned"
            /\ result[i] = VerdictFor(ShouldAuthorize(event[i], ran_under[i]))

\* C2: with ADMIN_API_KEY unset or empty the handler returns
\* isAuthorized = false for any request.
C2_NoSecretAlwaysDenies ==
    \A i \in Invocations :
        (Finished(i) /\ ~SecretConfigured(ran_under[i])) =>
            (pc[i] = "returned" /\ result[i] = Deny)

\* C3: the handler never raises: every invocation ends by returning a
\* verdict object, whatever the event's fields contain or lack.
C3_NeverRaises ==
    \A i \in Invocations : pc[i] # "raised" /\ exc[i] = NoException

\* C4: a returned value is exactly {isAuthorized: true} or
\* {isAuthorized: false}, with no other field, and each of the three failure
\* kinds (no configuration, no credential, mismatch) returns the one object
\* {isAuthorized: false}.
C4_VerdictShape ==
    \A i \in Invocations :
        pc[i] = "returned" =>
            /\ result[i].t = "dict"
            /\ DOMAIN result[i].m = {"isAuthorized"}
            /\ result[i].m["isAuthorized"] \in {PyBool(TRUE), PyBool(FALSE)}
            /\ (\E k \in 1..Len(logged[i]) :
                    logged[i][k].msg \in {MsgNoConfig, MsgNoHeader, MsgInvalid})
                  => result[i] = Deny

\* C4 witness: a mismatch has been decided and returned.
C4_Witness ==
    /\ pc[1] = "returned"
    /\ Len(logged[1]) = 2
    /\ logged[1][2].msg = MsgInvalid
    /\ result[1] = Deny
    /\ prev[1].any /\ prev[1].result = Deny /\ prev[1].secret = PyNone

\* C5: two events that agree on headers['x-api-key'], invoked under the same
\* ADMIN_API_KEY, get the same verdict whatever their other headers, their
\* requestContext and their other top-level fields are.
C5_IgnoredFieldsIndependence ==
    \A i \in Invocations :
        (/\ Finished(i)
         /\ prev[i].any
         /\ prev[i].agree
         /\ prev[i].secret = SecretOf(ran_under[i]))
        => (prev[i].exc = exc[i] /\ prev[i].result = result[i])

\* C6 (state part): invoked again on the same event under the same
\* environment, the handler ends as it ended the first time.
C6_SameOutcomeTwice ==
    \A i \in Invocations :
        (/\ Finished(i)
         /\ prev[i].any
         /\ prev[i].same
         /\ prev[i].secret = SecretOf(ran_under[i]))
        => (prev[i].exc = exc[i] /\ prev[i].result = result[i])

\* C6 (step part): no statement of the handler changes the event or the
\* environment; it changes only its own frame and the log.
C6_StepsMutateNothing ==
    \A i \in Invocations :
        (pc[i] # pc'[i] /\ Running(i)) => (event' = event /\ environ' = environ)

\* C6: idempotence: invoking the handler twice in a row with the same event
\* and environment gives the same verdict both times, and no invocation
\* changes the event, the environment or other state apart from log lines.
C6_Idempotent == [][C6_StepsMutateNothing]_vars /\ []C6_SameOutcomeTwice

\* C6 witness: a second invocation on the same event under the same secret
\* has returned an authorization.
C6_Witness ==
    /\ pc[1] = "returned"
    /\ prev[1].any /\ prev[1].same
    /\ prev[1].secret = SecretOf(ran_under[1])
    /\ result[1] = Allow

\* C7: the secret is read afresh by every invocation: the local holds the
\* value ADMIN_API_KEY has now, and the verdict is decided against the value
\* it had when this invocation ran, never one an earlier invocation saw.
C7_SecretReadFresh ==
    \A i \in Invocations :
        /\ pc[i] \in {"L58", "L64", "L67", "L69", "L74"}
              => expected_api_key[i] = SecretOf(environ)
        /\ pc[i] = "returned"
              => (result[i] = Allow <=> ShouldAuthorize(event[i], ran_under[i]))

\* C7 witness: ADMIN_API_KEY changed between two invocations and the later
\* one was authorized against the new value.
C7_Witness ==
    /\ pc[1] = "returned"
    /\ prev[1].any
    /\ Truthy(prev[1].secret)
    /\ prev[1].secret # SecretOf(ran_under[1])
    /\ prev[1].result = Allow
    /\ result[1] = Allow

\* C8: invocations interleaved in any order against a fixed ADMIN_API_KEY
\* each end exactly as they would have run alone on their own event.
C8_InterleavingIndependence ==
    \A i \in Invocations :
        Finished(i) =>
            /\ exc[i] = lambda_handler(event[i], environ).exc
            /\ result[i] = lambda_handler(event[i], environ).result
            /\ logged[i] = lambda_handler(event[i], environ).lines

\* C8 witness: one invocation has been authorized while another, holding a
\* different key, is at its comparison.
C8_Witness ==
    \E i, j \in Invocations :
        /\ i # j
        /\ pc[i] = "returned" /\ result[i] = Allow
        /\ pc[j] = "L74"
        /\ provided_api_key[j] # provided_api_key[i]

\* C9: the checks run in the order secret, header, equality, and each
\* invocation emits the diagnostic of exactly one outcome branch at that
\* branch's level: error (no secret), warning (no header), warning
\* (mismatch), info (match).
C9_OneOutcomeDiagnostic ==
    \A i \in Invocations :
        Finished(i) =>
            /\ Len(OutcomeLines(i)) = 1
            /\ OutcomeLines(i)[1].level = BranchDiagnostic(event[i], ran_under[i]).level
            /\ OutcomeLines(i)[1].msg = BranchDiagnostic(event[i], ran_under[i]).msg

\* C10: every invocation first emits the info-level 'Authorizer invoked'
\* line carrying requestContext.requestId, before the secret is looked up
\* and on every path; an invocation that returns has emitted exactly two
\* lines, the invocation line and then one outcome line.
C10_InvokedLineFirst ==
    \A i \in Invocations :
        /\ pc[i] \notin {"idle", "L53"} =>
              /\ Len(logged[i]) >= 1
              /\ logged[i][1].level = "INFO"
              /\ logged[i][1].msg = MsgInvoked
        /\ pc[i] = "returned" =>
              /\ Len(logged[i]) = 2
              /\ logged[i][2].msg # MsgInvoked

=============================================================================
